---- MODULE Spec2Model ----
(***************************************************************************)
(* Model of the jewish-studies-feed ingestion and retention pipeline:      *)
(*   - the Memory Log files (data/memory/news_log.csv, research_log.csv)   *)
(*     with RSSCrawler / CrossrefCrawler save_articles and                 *)
(*     generate_output_json, and NewsFilter._cleanup_processed_articles;   *)
(*   - the feed crawl loop of RSSCrawler.crawl_all_feeds;                  *)
(*   - the relevance gate of NewsFilter._filter_articles_with_ai_batched.  *)
(*                                                                         *)
(* Time is counted in hours (datetime.now() read as an integer number of   *)
(* hours); timedelta(days=d) is d * 24.                                    *)
(***************************************************************************)
EXTENDS Integers, Sequences, FiniteSets, TLC

VARIABLES
    now,          \* datetime.now(), in hours
    ticks,        \* number of clock advances so far (bounded by MaxTicks)
    memory_file,  \* self.memory_file: "news_log" (RSSCrawler) or "research_log" (CrossrefCrawler)
    log,          \* the memory file: [exists, rows]; rows in file order
    articles,     \* the list returned by the crawl and handed to save_articles
    days_back,    \* the days_back argument of generate_output_json
    output,       \* the output snapshot file: [exists, update, articles_count, sources, all_articles]
    pc,           \* position of the crawl run: "idle", "crawling", "crawled", "saved"
    \* crawl_all_feeds / crawl_all_journals
    feeds_df,       \* the configured sources, in file order: rows [source, active]
    hours_back,     \* the hours_back argument of crawl_all_feeds
    feed_idx,       \* index of the row the loop visits next
    existing_urls,  \* the known keys loaded at the start of the crawl
    cutoff_time,    \* datetime.now() - timedelta(hours=hours_back)
    all_articles,   \* the records collected so far
    fetch,          \* what the fetch of the source visited last did
    results,        \* per visited source: what its crawl contributed
    schedule,       \* the calls of the single-source crawl and the sleeps, in order
    \* NewsFilter._filter_articles_with_ai_batched
    weekly_articles,        \* the articles argument
    batch_num,              \* number of the batch being processed, from 0
    attempt,                \* attempt of _call_anthropic_api for this batch, from 0
    response,               \* what the capability did on the last call
    all_filtered_articles,  \* the kept records so far
    exhausted,              \* the batches whose call used up every attempt
    gate_pc,                \* "off", "start", "calling", "done", "raised"
    calls,                  \* per batch: invocations of the capability
    sleeps,                 \* per batch: time.sleep(self.retry_delay) waits
    submitted,              \* the batches handed to _call_anthropic_api, in order
    \* one process: crawl_news.py, crawl_crossref.py, filter_news.py, send_digest.py
    script,         \* the entry point that runs
    run_pc,         \* position of main
    exit_code,      \* exit status of the process; -1 while it runs
    env,            \* names of the environment variables that are set
    archive,        \* the dated archive file: [exists, rows]
    ext_calls,      \* fetches and mail submissions made by the process
    prior,          \* the files as the process found them
    \* the news pipeline over several runs
    upstream,       \* the items the feed offers, unchanged between runs
    ingested,       \* keys some crawl has returned as new records
    approved,       \* keys of the records the relevance gate has kept
    digest,         \* the records send_weekly_digest read from the news snapshot
    last_crawl,     \* the latest crawl_all_feeds: [t, known, returned]
    prev_crawl,     \* the crawl_all_feeds before it
    \* a crawl run and a filter run on the same news log at once
    save_pc,        \* save_articles: "start", "read", "done"
    cleanup_pc,     \* _cleanup_processed_articles: "start", "read", "done"
    save_file,      \* the log as save_articles read it
    cleanup_file    \* the log as _cleanup_processed_articles read it

logvars == <<now, ticks, memory_file, log, articles, days_back, output, pc>>

crawlvars ==
    <<feeds_df, hours_back, feed_idx, existing_urls, cutoff_time, all_articles, fetch, results,
      schedule>>

gatevars ==
    <<weekly_articles, batch_num, attempt, response, all_filtered_articles, exhausted, gate_pc,
      calls, sleeps, submitted>>

runvars == <<script, run_pc, exit_code, env, archive, ext_calls, prior>>

pipevars == <<upstream, ingested, approved, digest, last_crawl, prev_crawl>>

overlapvars == <<save_pc, cleanup_pc, save_file, cleanup_file>>

vars == <<logvars, crawlvars, gatevars, runvars, pipevars, overlapvars>>

(***************************************************************************)
(* Bounds of the model.                                                    *)
(***************************************************************************)
MaxTicks == 4     \* clock advances per behaviour
MaxBatch == 2     \* records in one crawl result
MaxItems == 2     \* raw items one source returns
MaxArticles == 201  \* records handed to the relevance gate
MaxStored == 2     \* rows of the memory log a process starts with
PipeGapDays == 3   \* days between two runs of the news pipeline
MaxPipeTicks == 2  \* such gaps per behaviour of the pipeline

(***************************************************************************)
(* Helpers on sequences.                                                   *)
(***************************************************************************)
Range(s) == {s[i] : i \in 1..Len(s)}

SeqsUpTo(S, n) == UNION {[1..k -> S] : k \in 0..n}

Keys(rows) == {rows[i].key : i \in 1..Len(rows)}

CountKey(rows, k) == Cardinality({i \in 1..Len(rows) : rows[i].key = k})

(***************************************************************************)
(* Program constants.                                                      *)
(***************************************************************************)
NewsRetentionDays == 30
ResearchRetentionDays == 730
RecentDays == 2

RetentionDays(mf) == IF mf = "news_log" THEN NewsRetentionDays ELSE ResearchRetentionDays

timedelta_days(d) == d * 24

(***************************************************************************)
(* Records.  key is the 'link' column of the news log and the 'doi' column *)
(* of the research log; source is 'source' resp. 'journal_name'.           *)
(***************************************************************************)
\* a publication date as the crawler resolves it: absent, a naive datetime
\* or a timezone-aware datetime
NoDate == [kind |-> "none", t |-> 0]

Naive(t) == [kind |-> "naive", t |-> t]

Aware(t) == [kind |-> "aware", t |-> t]

\* None, and the NaN a missing cell of the memory file is read back as
NoneValue == "None"

Catalog ==
    { [key |-> "k1", title |-> "Paper",    source |-> "A"],
      [key |-> "k1", title |-> "Paper v2", source |-> "A"],
      [key |-> "k2", title |-> "Other",    source |-> "B"] }

Stamp(c, t) ==
    [key |-> c.key, title |-> c.title, source |-> c.source,
     published |-> NoDate, scraped_at |-> t]

\* the record lists a crawl at time t can hand to save_articles
Batches(t) == SeqsUpTo({Stamp(c, t) : c \in Catalog}, MaxBatch)

NoFile == [exists |-> FALSE, rows |-> <<>>]

\* a file of zero bytes, and a file that is present but cannot be parsed
EmptyFile == [exists |-> TRUE, rows |-> <<>>, content |-> "empty"]

CorruptFile == [exists |-> TRUE, rows |-> <<>>, content |-> "corrupt"]

\* pd.read_csv(self.memory_file): "ok" or the exception it raises
read_csv(file) ==
    IF ~file.exists THEN "FileNotFoundError"
    ELSE IF file = EmptyFile THEN "EmptyDataError"
    ELSE IF file = CorruptFile THEN "ParserError"
    ELSE "ok"

\* a handler that lets every failed read through
raises_on_read_any(file) == read_csv(file) # "ok"

\* except (FileNotFoundError, pd.errors.EmptyDataError): any other exception
\* of the read leaves save_articles and generate_output_json
raises_on_read(file) == read_csv(file) \notin {"ok", "FileNotFoundError", "EmptyDataError"}

(***************************************************************************)
(* pandas operations used on the memory file.                              *)
(***************************************************************************)
\* drop_duplicates left out
drop_duplicates_none(s) == s

\* drop_duplicates(subset=[key], keep='last')
RECURSIVE drop_duplicates_keep_last(_)
drop_duplicates_keep_last(s) ==
    IF s = <<>> THEN <<>>
    ELSE LET rest == drop_duplicates_keep_last(Tail(s))
         IN  IF Head(s).key \in Keys(rest) THEN rest ELSE <<Head(s)>> \o rest

\* DataFrame.drop_duplicates(subset=[key], keep='first')
RECURSIVE drop_duplicates(_)
drop_duplicates(s) ==
    IF s = <<>> THEN <<>>
    ELSE LET front == drop_duplicates(SubSeq(s, 1, Len(s) - 1))
             last  == s[Len(s)]
         IN  IF last.key \in Keys(front) THEN front ELSE Append(front, last)

IsSortedDesc(s) == \A i \in 1..(Len(s) - 1) : s[i].scraped_at >= s[i + 1].scraped_at

\* DataFrame.sort_values('scraped_at', ascending=False): the default sort is
\* not stable, so rows with equal scraped_at may come out in any order.
sort_values(s) ==
    { t \in { [i \in 1..Len(s) |-> s[p[i]]] : p \in Permutations(1..Len(s)) } : IsSortedDesc(t) }

\* df[df['scraped_at'] >= cutoff]
not_older(s, cutoff) == SelectSeq(s, LAMBDA r : r.scraped_at >= cutoff)

\* df[df['scraped_at'] < cutoff]
older(s, cutoff) == SelectSeq(s, LAMBDA r : r.scraped_at < cutoff)

(***************************************************************************)
(* RSSCrawler.save_articles / CrossrefCrawler.save_articles: the set of    *)
(* files the call can leave behind.                                        *)
(***************************************************************************)
combine(file, arts) == IF read_csv(file) = "ok" THEN file.rows \o arts ELSE arts

\* the prune with a strict comparison
prune_strict(rows, t, mf) ==
    SelectSeq(rows, LAMBDA r : r.scraped_at > t - timedelta_days(RetentionDays(mf)))

prune(rows, t, mf) == not_older(rows, t - timedelta_days(RetentionDays(mf)))

save_articles(file, arts, t, mf) ==
    IF arts = <<>>
    THEN {file}
    ELSE { [exists |-> TRUE, rows |-> prune(sorted, t, mf)] :
             sorted \in sort_values(drop_duplicates(combine(file, arts))) }

(***************************************************************************)
(* NewsFilter._cleanup_processed_articles                                  *)
(***************************************************************************)
\* a cleanup that removes nothing
cleanup_rows_none(rows, t, W) == rows

cleanup_rows(rows, t, W) ==
    LET remaining_df == older(rows, t - timedelta_days(W))
        recent_df    == not_older(rows, t - timedelta_days(RecentDays))
    IN  IF remaining_df # <<>> /\ recent_df # <<>> THEN remaining_df \o recent_df
        ELSE IF recent_df # <<>> THEN recent_df
        ELSE <<>>

cleanup_processed_articles(file, t, W) ==
    IF read_csv(file) # "ok"
    THEN {file}
    ELSE { [exists |-> TRUE, rows |-> sorted] :
             sorted \in sort_values(drop_duplicates(cleanup_rows(file.rows, t, W))) }

(***************************************************************************)
(* generate_output_json                                                    *)
(***************************************************************************)
\* recent_df['source'] == source: a missing value equals nothing, itself included
same_source(a, b) == a = b /\ a # NoneValue

drop_scraped_at(r) ==
    [key |-> r.key, title |-> r.title, source |-> r.source, published |-> r.published]

to_dict_records(rows) == [i \in 1..Len(rows) |-> drop_scraped_at(rows[i])]

NoOutput ==
    [exists |-> FALSE, update |-> 0, articles_count |-> 0,
     sources |-> <<>>, all_articles |-> <<>>]

\* the window with a strict comparison
generate_output_json_strict(file, t, D) ==
    LET recent_df == SelectSeq(file.rows, LAMBDA r : r.scraped_at > t - timedelta_days(D))
    IN  [exists |-> TRUE, update |-> t, articles_count |-> Len(recent_df),
         sources |-> <<>>, all_articles |-> to_dict_records(recent_df)]

generate_output_json(file, t, D) ==
    IF read_csv(file) # "ok"
    THEN [exists |-> TRUE, update |-> t, articles_count |-> 0,
          sources |-> <<>>, all_articles |-> <<>>]
    ELSE LET recent_df == not_older(file.rows, t - timedelta_days(D))
             by(src)   == SelectSeq(recent_df, LAMBDA r : same_source(r.source, src))
         IN  [exists |-> TRUE, update |-> t, articles_count |-> Len(recent_df),
              sources |-> [src \in {recent_df[i].source : i \in 1..Len(recent_df)} |->
                             [count |-> Len(by(src)), articles |-> to_dict_records(by(src))]],
              all_articles |-> to_dict_records(recent_df)]

(***************************************************************************)
(* The memory-log specification: crawl runs (crawl, save, generate) and    *)
(* filter-run cleanups, one at a time, while the clock advances.           *)
(***************************************************************************)
DaysBackChoices == {2, 7}

NoFetch == [kind |-> "none", items |-> <<>>]

CrawlIdle ==
    /\ feeds_df = <<>>
    /\ hours_back = 25
    /\ feed_idx = 1
    /\ existing_urls = {}
    /\ cutoff_time = 0
    /\ all_articles = <<>>
    /\ fetch = NoFetch
    /\ results = <<>>
    /\ schedule = <<>>

NoResponse == [kind |-> "none", value |-> <<>>]

GateIdle ==
    /\ weekly_articles = <<>>
    /\ batch_num = 0
    /\ attempt = 0
    /\ response = NoResponse
    /\ all_filtered_articles = <<>>
    /\ exhausted = {}
    /\ gate_pc = "start"
    /\ calls = <<>>
    /\ sleeps = <<>>
    /\ submitted = <<>>

RunIdle ==
    /\ script = "none"
    /\ run_pc = "start"
    /\ exit_code = -1
    /\ env = {}
    /\ archive = NoFile
    /\ ext_calls = 0
    /\ prior = [log |-> NoFile, output |-> NoOutput, archive |-> NoFile]

NoCrawl == [t |-> -1, known |-> {}, returned |-> {}]

PipeIdle ==
    /\ upstream = <<>>
    /\ ingested = {}
    /\ approved = {}
    /\ digest = <<>>
    /\ last_crawl = NoCrawl
    /\ prev_crawl = NoCrawl

OverlapIdle ==
    /\ save_pc = "start"
    /\ cleanup_pc = "start"
    /\ save_file = NoFile
    /\ cleanup_file = NoFile

\* gaps between successive runs, in days
ElapseDays(mf) == {1, RetentionDays(mf) - 1}

Init ==
    /\ now = 0
    /\ ticks = 0
    /\ memory_file \in {"news_log", "research_log"}
    /\ log = NoFile
    /\ articles = <<>>
    /\ days_back \in DaysBackChoices
    /\ output = NoOutput
    /\ pc = "idle"
    /\ CrawlIdle
    /\ GateIdle
    /\ RunIdle
    /\ PipeIdle
    /\ OverlapIdle

Tick ==
    /\ pc = "idle"
    /\ ticks < MaxTicks
    /\ \E d \in ElapseDays(memory_file) : now' = now + timedelta_days(d)
    /\ ticks' = ticks + 1
    /\ UNCHANGED <<memory_file, log, articles, days_back, output, pc, crawlvars, gatevars, runvars, pipevars, overlapvars>>

\* crawl_all_feeds / crawl_all_journals seen from the memory log: some list of
\* records stamped with the time of the crawl
Crawl ==
    /\ pc = "idle"
    /\ articles' \in Batches(now)
    /\ pc' = "crawled"
    /\ UNCHANGED <<now, ticks, memory_file, log, days_back, output, crawlvars, gatevars, runvars, pipevars, overlapvars>>

SaveArticles ==
    /\ pc = "crawled"
    /\ log' \in save_articles(log, articles, now, memory_file)
    /\ pc' = "saved"
    /\ UNCHANGED <<now, ticks, memory_file, articles, days_back, output, crawlvars, gatevars, runvars, pipevars, overlapvars>>

GenerateOutputJson ==
    /\ pc = "saved"
    /\ output' = generate_output_json(log, now, days_back)
    /\ articles' = <<>>
    /\ pc' = "idle"
    /\ UNCHANGED <<now, ticks, memory_file, log, days_back, crawlvars, gatevars, runvars, pipevars, overlapvars>>

CleanupProcessedArticles ==
    /\ pc = "idle"
    /\ memory_file = "news_log"
    /\ \E W \in DaysBackChoices : log' \in cleanup_processed_articles(log, now, W)
    /\ UNCHANGED <<now, ticks, memory_file, articles, days_back, output, pc, crawlvars, gatevars, runvars, pipevars, overlapvars>>

Next ==
    \/ Tick
    \/ Crawl
    \/ SaveArticles
    \/ GenerateOutputJson
    \/ CleanupProcessedArticles

Spec == Init /\ [][Next]_vars

(***************************************************************************)
(* Properties of the memory log.                                           *)
(***************************************************************************)
SaveStep == pc = "crawled" /\ pc' = "saved"

GenerateStep == pc = "saved" /\ pc' = "idle"

Horizon == now - timedelta_days(RetentionDays(memory_file))

UniqueKeys(rows) == \A i, j \in 1..Len(rows) : rows[i].key = rows[j].key => i = j

Count(rows, r) == Cardinality({i \in 1..Len(rows) : rows[i] = r})

SameEntries(a, b) == \A r \in Range(a) \cup Range(b) : Count(a, r) = Count(b, r)

\* the keys of the batch that collide with the store or with an earlier record of the batch
Colliding(file, arts) ==
    {arts[i].key : i \in {i \in 1..Len(arts) :
        \/ arts[i].key \in Keys(file.rows)
        \/ \E j \in 1..(i - 1) : arts[j].key = arts[i].key}}

\* the earliest-observed record with key k: the stored one, else the first of the batch
FirstSeen(file, arts, k) ==
    LET c == file.rows \o arts
    IN  c[CHOOSE i \in 1..Len(c) : c[i].key = k /\ \A j \in 1..(i - 1) : c[j].key # k]

\* the merged, deduplicated record set: each record that is the first with its key
Merged(file, arts) ==
    LET c == file.rows \o arts
    IN  {c[i] : i \in {i \in 1..Len(c) : \A j \in 1..(i - 1) : c[j].key # c[i].key}}

\* C1: the persisted log never holds two entries with the same dedup key,
\* whatever sequence of save_articles and cleanup calls produced it.
C1_KeyUniqueness == UniqueKeys(log.rows)

\* a save has merged a batch that repeats a key the store also holds
C1_Witness ==
    /\ pc = "saved"
    /\ Len(articles) = 2
    /\ articles[1].key = articles[2].key
    /\ \E i \in 1..Len(log.rows) :
          log.rows[i].key = articles[1].key /\ log.rows[i].scraped_at < now
    /\ Len(log.rows) = 2

\* C2 (as claimed): when save_articles merges a record whose key collides with
\* a stored entry or an earlier record of the batch, the earliest-observed
\* record is in the store afterwards, unchanged, and is the only one with that key.
C2_FirstSeenRetained ==
    [][SaveStep =>
         \A k \in Colliding(log, articles) :
            /\ CountKey(log'.rows, k) = 1
            /\ FirstSeen(log, articles, k) \in Range(log'.rows)]_vars

\* C2 (amended): after the save at most one entry has the colliding key, any
\* such entry is the earliest-observed record unchanged, and it is present
\* exactly when its scraped_at is not older than the retention horizon.
C2_FirstSeenWins ==
    [][SaveStep =>
         \A k \in Colliding(log, articles) :
            /\ CountKey(log'.rows, k) <= 1
            /\ \A r \in Range(log'.rows) : r.key = k => r = FirstSeen(log, articles, k)
            /\ (k \in Keys(log'.rows)) <=> (FirstSeen(log, articles, k).scraped_at >= Horizon)]_vars

\* the store held "Paper" from an earlier run, the batch brought "Paper v2"
\* under the same key, and "Paper" is what the store holds after the save
C2_Witness ==
    /\ pc = "saved"
    /\ \E i \in 1..Len(articles) : articles[i].key = "k1" /\ articles[i].title = "Paper v2"
    /\ \E i \in 1..Len(log.rows) :
          /\ log.rows[i].key = "k1"
          /\ log.rows[i].title = "Paper"
          /\ log.rows[i].scraped_at < now
    /\ CountKey(log.rows, "k1") = 1

\* C3 (as claimed): a second save_articles with the same records, at the same
\* time, leaves the entries of the first save, without duplicate keys.
C3_IdempotentAlways ==
    [][SaveStep =>
         \A again \in save_articles(log', articles, now, memory_file) :
            SameEntries(again.rows, log'.rows) /\ UniqueKeys(again.rows)]_vars

\* some stored entry older than the retention horizon shares its key with the batch
ExpiredCollision(file, arts) ==
    \E i \in 1..Len(file.rows) :
       file.rows[i].key \in Keys(arts) /\ file.rows[i].scraped_at < Horizon

\* C3 (amended): the same, provided no entry the store held before the first
\* save was already older than the retention horizon and shared its key with
\* a record of the batch.
C3_IdempotentMerge ==
    [][(SaveStep /\ ~ExpiredCollision(log, articles)) =>
         \A again \in save_articles(log', articles, now, memory_file) :
            SameEntries(again.rows, log'.rows) /\ UniqueKeys(again.rows)]_vars

\* a non-empty batch was merged into a store that held another key already
C3_Witness ==
    /\ pc = "saved"
    /\ Len(articles) = 1
    /\ Len(log.rows) = 2
    /\ \E i \in 1..2 : log.rows[i] = articles[1]
    /\ \E i \in 1..2 : log.rows[i].scraped_at < now

\* C4: after save_articles merged a non-empty batch at time now, no stored
\* entry is older than now - retention, and every record of the merged,
\* deduplicated set that is not older than that is stored.
C4_RetentionBound ==
    [][(SaveStep /\ articles # <<>>) =>
         /\ \A r \in Range(log'.rows) : r.scraped_at >= Horizon
         /\ \A r \in Merged(log, articles) : r.scraped_at >= Horizon => r \in Range(log'.rows)]_vars

\* a save kept an entry whose age is exactly the retention
C4_Witness ==
    /\ pc = "saved"
    /\ articles # <<>>
    /\ \E i \in 1..Len(log.rows) : log.rows[i].scraped_at = Horizon
    /\ Len(log.rows) = 2

\* C5 (as claimed): after the save of every crawl run, also one that found
\* nothing, the store holds no entry older than the retention horizon.
C5_PruneEveryRun ==
    pc = "saved" => \A r \in Range(log.rows) : r.scraped_at >= Horizon

JournalDaysBack == 8

HoursBackChoices == {1, 25}

\* the raw items a fetch at time t can return, with the date each resolves to
\* (_parse_entry_date, _parse_date_string, _extract_date)
RawItems(t, H) ==
    { [link |-> "k1",      title |-> "Paper",   date |-> NoDate],
      [link |-> "k2",      title |-> "Other",   date |-> Naive(t - H)],
      [link |-> "k2",      title |-> "Other",   date |-> Naive(t - H - 1)],
      [link |-> "k3",      title |-> "Third",   date |-> Aware(t)],
      [link |-> NoneValue, title |-> "Paper",   date |-> NoDate],
      [link |-> "k3",      title |-> NoneValue, date |-> Naive(t)],
      [link |-> "k3",      title |-> " ",       date |-> NoDate] }

\* Crossref date-parts only ever give naive datetimes
WorkItems(t, H) == {w \in RawItems(t, H) : w.date.kind # "aware"}

\* what one source's fetch can do: raise out of the per-source crawl, fail
\* inside it, or return items (through feedparser, through the requests
\* fallback, or from the Crossref query)
Fetches(mf, t, H) ==
    {[kind |-> "raise", items |-> <<>>], [kind |-> "failed", items |-> <<>>]}
    \cup (IF mf = "news_log"
          THEN {[kind |-> k, items |-> l] :
                  k \in {"feedparser", "requests"}, l \in SeqsUpTo(RawItems(t, H), MaxItems)}
          ELSE {[kind |-> "works", items |-> l] : l \in SeqsUpTo(WorkItems(t, H), MaxItems)})

RECURSIVE Concat(_)
Concat(ss) == IF ss = <<>> THEN <<>> ELSE Head(ss) \o Concat(Tail(ss))

\* re.sub(r'\s+', ' ', text).strip(), on the titles of RawItems
clean_text(text) == IF text = " " THEN "" ELSE text

\* str.strip(), on the titles of RawItems
strip(text) == IF text = " " THEN "" ELSE text

get_entry_title(entry) ==
    IF entry.title # NoneValue /\ entry.title # "" THEN clean_text(entry.title) ELSE "Untitled"

extract_title(work) == IF work.title = NoneValue THEN "" ELSE strip(work.title)

new_article(key, title, source, date, t) ==
    [key |-> key, title |-> title, source |-> source, published |-> date, scraped_at |-> t]

\* pub_date and pub_date < cutoff_time: comparing an aware datetime with the
\* naive cutoff raises TypeError
too_old_raises(date) == date.kind = "aware"

too_old(date, cutoff) == date.kind = "naive" /\ date.t < cutoff

\* one entry of the feedparser loop; an exception skips the entry
process_entry(entry, source, existing, cutoff, t) ==
    IF entry.link = NoneValue \/ entry.link \in existing THEN <<>>
    ELSE IF too_old_raises(entry.date) THEN <<>>
    ELSE IF too_old(entry.date, cutoff) THEN <<>>
    ELSE LET title == get_entry_title(entry)
         IN  IF title # "" THEN <<new_article(entry.link, title, source, entry.date, t)>>
             ELSE <<>>

\* one item of the requests fallback loop
process_item(item, source, existing, cutoff, t) ==
    IF item.title = NoneValue \/ item.link = NoneValue THEN <<>>
    ELSE IF item.link \in existing THEN <<>>
    ELSE IF too_old_raises(item.date) THEN <<>>
    ELSE IF too_old(item.date, cutoff) THEN <<>>
    ELSE <<new_article(item.link, clean_text(item.title), source, item.date, t)>>

\* one work of the Crossref loop, with _extract_article_data
process_work(work, source, existing, t) ==
    IF work.link = NoneValue \/ work.link \in existing THEN <<>>
    ELSE IF extract_title(work) = "" THEN <<>>
    ELSE <<new_article(work.link, extract_title(work), source, work.date, t)>>

\* _crawl_single_feed / _crawl_single_journal for a fetch that did not raise
\* out of it
crawl_single(f, source, existing, cutoff, t) ==
    Concat([i \in 1..Len(f.items) |->
              IF f.kind = "feedparser" THEN process_entry(f.items[i], source, existing, cutoff, t)
              ELSE IF f.kind = "requests" THEN process_item(f.items[i], source, existing, cutoff, t)
              ELSE IF f.kind = "works" THEN process_work(f.items[i], source, existing, t)
              ELSE <<>>])

\* a crawl that starts with no known keys
load_existing_urls_none(file) == {}

\* _load_existing_urls / _load_existing_dois
load_existing_urls(file) == IF read_csv(file) = "ok" THEN Keys(file.rows) ELSE {}

\* the rows the loop iterates: feeds_df, resp. active_journals
crawl_rows(mf, df) == IF mf = "news_log" THEN df ELSE SelectSeq(df, LAMBDA row : row.active)

\* every record a source returns is added to the known keys
known_after_add(existing, found) == existing \cup Keys(found)

\* existing_urls / existing_dois after one source's result: the loop passes the
\* set to the single-source crawl and neither assigns it nor adds to it
known_after(existing, found) == existing

\* what one iteration of the loop adds to the schedule: the call of the
\* single-source crawl when the iteration got that far, and time.sleep, which
\* is the last statement of the try body and is skipped when the except branch
\* is taken
loop_events(raised, called) ==
    (IF called THEN <<"fetch">> ELSE <<>>) \o (IF raised THEN <<>> ELSE <<"sleep">>)

\* the per-source handler gives up on the whole crawl
on_source_error_abort(i, rows) == Len(rows) + 1

\* the per-source handler: log the error and continue with the next row
on_source_error(i, rows) == i + 1

FeedConfigs ==
    { <<[source |-> "A", active |-> TRUE], [source |-> "B", active |-> TRUE]>>,
      <<[source |-> "A", active |-> TRUE], [source |-> "B", active |-> FALSE]>> }

KnownLog == [exists |-> TRUE, rows |-> <<Stamp(CHOOSE c \in Catalog : c.title = "Paper", 0)>>]

InitCrawl ==
    /\ now = 48
    /\ ticks = 0
    /\ memory_file \in {"news_log", "research_log"}
    /\ log \in {NoFile, KnownLog}
    /\ articles = <<>>
    /\ days_back = 7
    /\ output = NoOutput
    /\ pc = "idle"
    /\ feeds_df \in FeedConfigs
    /\ hours_back \in HoursBackChoices
    /\ feed_idx = 1
    /\ existing_urls = {}
    /\ cutoff_time = 0
    /\ all_articles = <<>>
    /\ fetch = NoFetch
    /\ results = <<>>
    /\ schedule = <<>>
    /\ GateIdle
    /\ RunIdle
    /\ PipeIdle
    /\ OverlapIdle

CrawlStart ==
    /\ pc = "idle"
    /\ pc' = "crawling"
    /\ all_articles' = <<>>
    /\ existing_urls' = load_existing_urls(log)
    /\ cutoff_time' = IF memory_file = "news_log" THEN now - hours_back
                      ELSE now - timedelta_days(JournalDaysBack)
    /\ feed_idx' = 1
    /\ fetch' = NoFetch
    /\ results' = <<>>
    /\ schedule' = <<>>
    /\ UNCHANGED <<now, ticks, memory_file, log, articles, days_back, output, feeds_df, hours_back, gatevars, runvars, pipevars, overlapvars>>

\* one iteration of the loop over the sources
CrawlSource ==
    /\ pc = "crawling"
    /\ feed_idx <= Len(crawl_rows(memory_file, feeds_df))
    /\ \E f \in Fetches(memory_file, now, hours_back), called \in BOOLEAN :
          LET rows  == crawl_rows(memory_file, feeds_df)
              row   == rows[feed_idx]
              found == IF f.kind = "raise" THEN <<>>
                       ELSE crawl_single(f, row.source, existing_urls, cutoff_time, now)
          IN  /\ fetch' = f
              /\ all_articles' = all_articles \o found
              /\ results' = Append(results,
                     [source |-> row.source, ok |-> f.kind \notin {"raise", "failed"},
                      found |-> found])
              /\ feed_idx' = IF f.kind = "raise" THEN on_source_error(feed_idx, rows)
                             ELSE feed_idx + 1
              /\ existing_urls' = known_after(existing_urls, found)
              /\ f.kind # "raise" => called
              /\ schedule' = schedule \o loop_events(f.kind = "raise", called)
    /\ UNCHANGED <<logvars, feeds_df, hours_back, cutoff_time, gatevars, runvars, pipevars, overlapvars>>

CrawlReturn ==
    /\ pc = "crawling"
    /\ feed_idx > Len(crawl_rows(memory_file, feeds_df))
    /\ articles' = all_articles
    /\ pc' = "crawled"
    /\ UNCHANGED <<now, ticks, memory_file, log, days_back, output, crawlvars, gatevars, runvars, pipevars, overlapvars>>

NextCrawl ==
    \/ CrawlStart
    \/ CrawlSource
    \/ CrawlReturn

SpecCrawl == InitCrawl /\ [][NextCrawl]_vars

(***************************************************************************)
(* Properties of the crawl.                                                *)
(***************************************************************************)
\* C7: when the fetch of one source raises or fails, the crawl still visits
\* every remaining source and returns exactly the records the other sources'
\* crawls contributed, in order; it does not abort.
C7_SourceIsolation ==
    pc = "crawled" =>
        LET rows == crawl_rows(memory_file, feeds_df)
        IN  /\ Len(results) = Len(rows)
            /\ \A i \in 1..Len(rows) : results[i].source = rows[i].source
            /\ \A i \in 1..Len(results) : ~results[i].ok => results[i].found = <<>>
            /\ articles = Concat([i \in 1..Len(results) |-> results[i].found])

\* the fetch of the first source raised, the second source returned two new
\* records, and the crawl returned exactly those two
C7_Witness ==
    /\ pc = "crawled"
    /\ Len(results) = 2
    /\ ~results[1].ok
    /\ results[2].ok
    /\ Len(results[2].found) = 2
    /\ Len(articles) = 2
    /\ \A i \in 1..2 : articles[i].source = "B"

ResolvableTitle(item) == item.title \notin {NoneValue, "", " "}

\* C10 (as claimed): every record a feed's crawl returns has a key outside the
\* known-keys set and a publication time that is absent or not older than
\* now - hours_back; and every fetched item with a key and a title, not known,
\* undated or not older than the cutoff, is returned.
C10_AdmissionRule ==
    (memory_file = "news_log" /\ results # <<>> /\ fetch.kind \in {"feedparser", "requests"}) =>
        LET found == results[Len(results)].found
        IN  /\ \A r \in Range(found) :
                  /\ r.key \notin existing_urls
                  /\ r.published.kind = "none" \/ r.published.t >= now - hours_back
            /\ \A item \in Range(fetch.items) :
                  ( /\ item.link # NoneValue
                    /\ ResolvableTitle(item)
                    /\ item.link \notin existing_urls
                    /\ item.date.kind = "none" \/ item.date.t >= now - hours_back )
                  => \E r \in Range(found) : r.key = item.link

\* C11 (as claimed): in every crawl, of feeds and of journals alike, each
\* source that was fetched has active = TRUE in the configuration, and no
\* record of the crawl comes from a source with active = FALSE.
C11_OnlyActiveSources ==
    LET active == {row.source : row \in {r \in Range(feeds_df) : r.active}}
    IN  /\ \A i \in 1..Len(results) : results[i].source \in active
        /\ \A r \in Range(all_articles) : r.source \in active

\* C12 (as claimed): a fetched item whose key or title is missing or empty
\* yields no record: every record of a source's crawl has a key and carries
\* the title of a fetched item with that key.
C12_NormalizerRejection ==
    results # <<>> =>
        \A r \in Range(results[Len(results)].found) :
            /\ r.key # NoneValue
            /\ \E item \in Range(fetch.items) :
                  /\ item.link = r.key
                  /\ ResolvableTitle(item)
                  /\ r.title = item.title

(***************************************************************************)
(* The relevance gate: NewsFilter._filter_articles_with_ai_batched with    *)
(* _call_anthropic_api.  A record is identified by its position in the     *)
(* list handed to the gate.                                                *)
(***************************************************************************)
batch_size == 100
max_retries == 3

GateSizes == {0, 1, batch_size, batch_size + 1, MaxArticles}

\* the index lists a well-formed reply can carry
IndexLists ==
    { <<>>, <<0>>, <<1, 0>>, <<0, 0>>, <<batch_size - 1, batch_size>>, <<-1>> }

\* what the capability can do on one call: raise, return a response object
\* without a text block, return text that is not JSON, return JSON that is
\* not a list of integers, return a list of integers
Replies ==
    { [kind |-> k, value |-> <<>>] : k \in {"raise", "malformed", "non_json", "not_int_list"} }
    \cup { [kind |-> "int_list", value |-> v] : v \in IndexLists }

\* the exception the call raises
exception_of(reply) ==
    CASE reply.kind = "raise"        -> "APIError"
      [] reply.kind = "malformed"    -> "IndexError"
      [] reply.kind = "non_json"     -> "JSONDecodeError"
      [] reply.kind = "not_int_list" -> "ValueError"
      [] OTHER                       -> "none"

\* whether it is raised inside the inner try (json.loads and the validation)
in_inner_try(reply) == reply.kind \in {"non_json", "not_int_list"}

\* except (json.JSONDecodeError, ValueError)
inner_catches(exc) == exc \in {"JSONDecodeError", "ValueError"}

\* an outer handler for the client's own error only
outer_catches_api_only(exc) == exc = "APIError"

\* except Exception
outer_catches(exc) == exc \in {"APIError", "IndexError", "JSONDecodeError", "ValueError"}

\* a gate that passes the whole batch when the retries are used up
exhausted_result_pass(batch) == [i \in 1..Len(batch) |-> i - 1]

\* "Max retries reached, returning empty result"
exhausted_result(batch) == <<>>

\* one pass of the retry loop of _call_anthropic_api
attempt_outcome(reply, n, batch) ==
    LET exc     == exception_of(reply)
        handled == (in_inner_try(reply) /\ inner_catches(exc)) \/ outer_catches(exc)
    IN  IF exc = "none" THEN [tag |-> "return", value |-> reply.value]
        ELSE IF ~handled THEN [tag |-> "raise", value |-> <<>>]
        ELSE IF n = max_retries - 1 THEN [tag |-> "return", value |-> exhausted_result(batch)]
        ELSE [tag |-> "retry", value |-> <<>>]

\* a retry loop that also waits after the last attempt
retry_sleeps_always(n) == 1

\* time.sleep(self.retry_delay) in the handlers: skipped on the last attempt
retry_sleeps(n) == IF n = max_retries - 1 THEN 0 ELSE 1

\* add d to the counter of batch b, starting it at 0
bump(counters, b, d) ==
    IF Len(counters) = b THEN Append(counters, d)
    ELSE [counters EXCEPT ![b + 1] = @ + d]

total_batches(arts) == (Len(arts) + batch_size - 1) \div batch_size

Min(a, b) == IF a < b THEN a ELSE b

\* a batch loop that hands the whole list to every call
batch_of_whole(arts, b) == arts

\* batch = articles[start_idx:end_idx]
batch_of(arts, b) == SubSeq(arts, b * batch_size + 1, Min(b * batch_size + batch_size, Len(arts)))

\* the reply's indices read as counted from 1
selected_one_based(batch, indices) ==
    LET valid == SelectSeq(indices, LAMBDA idx : 1 <= idx /\ idx <= Len(batch))
    IN  [i \in 1..Len(valid) |-> batch[valid[i]]]

\* for idx in filtered_indices: if 0 <= idx < len(batch): append(batch[idx])
selected(batch, indices) ==
    LET valid == SelectSeq(indices, LAMBDA idx : 0 <= idx /\ idx < Len(batch))
    IN  [i \in 1..Len(valid) |-> batch[valid[i] + 1]]

InitGate ==
    /\ now = 0
    /\ ticks = 0
    /\ memory_file = "news_log"
    /\ log = NoFile
    /\ articles = <<>>
    /\ days_back = 7
    /\ output = NoOutput
    /\ pc = "idle"
    /\ CrawlIdle
    /\ weekly_articles \in {[i \in 1..n |-> i] : n \in GateSizes}
    /\ batch_num = 0
    /\ attempt = 0
    /\ response = NoResponse
    /\ all_filtered_articles = <<>>
    /\ exhausted = {}
    /\ gate_pc = "start"
    /\ calls = <<>>
    /\ sleeps = <<>>
    /\ submitted = <<>>
    /\ RunIdle
    /\ PipeIdle
    /\ OverlapIdle

GateStart ==
    /\ gate_pc = "start"
    /\ gate_pc' = IF weekly_articles = <<>> THEN "done" ELSE "calling"
    /\ UNCHANGED <<logvars, crawlvars, runvars, weekly_articles, batch_num, attempt, response,
                   all_filtered_articles, exhausted, calls, sleeps, submitted,
                   pipevars, overlapvars>>

\* one call of the capability, with what the retry loop and the batch loop do
\* with its reply
CallApi ==
    /\ gate_pc = "calling"
    /\ \E reply \in Replies :
          LET batch == batch_of(weekly_articles, batch_num)
              out   == attempt_outcome(reply, attempt, batch)
              last  == batch_num = total_batches(weekly_articles) - 1
          IN  /\ response' = reply
              /\ attempt' = IF out.tag = "retry" THEN attempt + 1
                            ELSE IF out.tag = "return" /\ ~last THEN 0
                            ELSE attempt
              /\ batch_num' = IF out.tag = "return" /\ ~last THEN batch_num + 1 ELSE batch_num
              /\ all_filtered_articles' =
                    IF out.tag = "return" THEN all_filtered_articles \o selected(batch, out.value)
                    ELSE all_filtered_articles
              /\ exhausted' = IF out.tag = "return" /\ reply.kind # "int_list"
                              THEN exhausted \cup {batch_num} ELSE exhausted
              /\ gate_pc' = IF out.tag = "raise" THEN "raised"
                            ELSE IF out.tag = "return" /\ last THEN "done"
                            ELSE "calling"
              /\ calls' = bump(calls, batch_num, 1)
              /\ sleeps' = bump(sleeps, batch_num,
                                IF reply.kind # "int_list" /\ out.tag # "raise"
                                THEN retry_sleeps(attempt) ELSE 0)
              /\ submitted' = IF attempt = 0 THEN Append(submitted, batch) ELSE submitted
    /\ UNCHANGED <<logvars, crawlvars, runvars, weekly_articles, pipevars, overlapvars>>

NextGate ==
    \/ GateStart
    \/ CallApi

SpecGate == InitGate /\ [][NextGate]_vars

(***************************************************************************)
(* Properties of the relevance gate.                                       *)
(***************************************************************************)
\* the records of batch b
BatchRecords(b) == Range(batch_of(weekly_articles, b))

\* C8: when the capability fails on all max_retries attempts for a batch,
\* none of that batch's records is in the kept list, and the step that gives
\* the batch up leaves the kept records of the other batches as they were.
C8_FailClosed ==
    /\ [](\A b \in exhausted : Range(all_filtered_articles) \cap BatchRecords(b) = {})
    /\ [][exhausted' # exhausted => all_filtered_articles' = all_filtered_articles]_vars

\* the first batch used up its attempts, the second was answered, and the
\* kept list holds records of the second only
C8_Witness ==
    /\ gate_pc = "done"
    /\ exhausted = {0}
    /\ all_filtered_articles # <<>>
    /\ Range(all_filtered_articles) \subseteq BatchRecords(1)

\* C9: whatever the capability does on each call, no exception leaves the
\* gate, and what the gate returns is a list of records handed to it.
C9_NoException ==
    /\ gate_pc # "raised"
    /\ gate_pc = "done" => Range(all_filtered_articles) \subseteq Range(weekly_articles)

\* the gate returned after a run in which the last call came back without a
\* text block on the final attempt
C9_Witness ==
    /\ gate_pc = "done"
    /\ response.kind = "malformed"
    /\ attempt = max_retries - 1
    /\ batch_num \in exhausted

(***************************************************************************)
(* One process from start to exit: main of crawl_news.py,                  *)
(* crawl_crossref.py, filter_news.py and send_digest.py, with the files as *)
(* it finds them.                                                          *)
(***************************************************************************)
EnvVars == {"ANTHROPIC_API_KEY", "EMAIL_USERNAME", "EMAIL_PASSWORD", "EMAIL_SUBSCRIBERS"}

Scripts == {"crawl_news", "crawl_crossref", "filter_news", "send_digest"}

CrawlScripts == {"crawl_news", "crawl_crossref"}

memory_file_of(s) == IF s = "crawl_crossref" THEN "research_log" ELSE "news_log"

\* a main that checks nothing
required_vars_none(s) == {}

\* the variables main tests before it does anything else
required_vars(s) ==
    IF s = "filter_news" THEN {"ANTHROPIC_API_KEY"}
    ELSE IF s = "send_digest" THEN {"EMAIL_USERNAME", "EMAIL_PASSWORD", "EMAIL_SUBSCRIBERS"}
    ELSE {}

\* the variables NewsFilter.__init__ and EmailSender.__init__ raise ValueError for
init_requires(s) ==
    IF s = "filter_news" THEN {"ANTHROPIC_API_KEY"}
    ELSE IF s = "send_digest" THEN {"EMAIL_USERNAME", "EMAIL_PASSWORD"}
    ELSE {}

\* ages, in days, of the records the process finds in the memory log
RunAges == {0, 2, 3, 7, 8}

\* a record whose source cell is empty
NoSource == [key |-> "k3", title |-> "Third", source |-> NoneValue]

StoredRecords(t) ==
    { Stamp(c, t - timedelta_days(a)) : c \in {c \in Catalog : c.title # "Paper v2"}, a \in RunAges }
    \cup {Stamp(NoSource, t)}

\* the memory file as an earlier run left it (one row per key, newest first),
\* or absent, or of zero bytes, or unreadable
RunLogs(t) ==
    {NoFile, EmptyFile, CorruptFile}
    \cup { [exists |-> TRUE, rows |-> l] :
             l \in { l \in SeqsUpTo(StoredRecords(t), MaxStored) :
                       IsSortedDesc(l) /\ \A i, j \in 1..Len(l) : l[i].key = l[j].key => i = j } }

\* the snapshot an earlier run wrote
PriorOutput(t) == generate_output_json(NoFile, t - timedelta_days(1), 7)

\* NewsFilter._load_weekly_articles
load_weekly_articles(file, t, W) ==
    IF read_csv(file) # "ok" THEN <<>> ELSE not_older(file.rows, t - timedelta_days(W))

\* NewsFilter._save_filtered_output
save_filtered_output(arts, t) ==
    LET by(src) == SelectSeq(arts, LAMBDA r : r.source = src)
    IN  [exists |-> TRUE, update |-> t, articles_count |-> Len(arts),
         sources |-> [src \in {arts[i].source : i \in 1..Len(arts)} |->
                        [count |-> Len(by(src)), articles |-> by(src)]],
         all_articles |-> arts]

InitRun ==
    /\ now = timedelta_days(10)
    /\ ticks = 0
    /\ script \in Scripts
    /\ memory_file = memory_file_of(script)
    /\ log \in RunLogs(now)
    /\ articles = <<>>
    /\ days_back \in DaysBackChoices
    /\ output \in {NoOutput, PriorOutput(now)}
    /\ pc = "idle"
    /\ CrawlIdle
    /\ weekly_articles = <<>>
    /\ batch_num = 0
    /\ attempt = 0
    /\ response = NoResponse
    /\ all_filtered_articles = <<>>
    /\ exhausted = {}
    /\ gate_pc = "off"
    /\ calls = <<>>
    /\ sleeps = <<>>
    /\ submitted = <<>>
    /\ run_pc = "start"
    /\ exit_code = -1
    /\ env \in SUBSET EnvVars
    /\ archive = NoFile
    /\ ext_calls = 0
    /\ prior = [log |-> log, output |-> output, archive |-> archive]
    /\ PipeIdle
    /\ OverlapIdle

\* the checks of the environment: main's own, then the constructor's
ConfigCheck ==
    /\ run_pc = "start"
    /\ IF required_vars(script) \subseteq env /\ init_requires(script) \subseteq env
       THEN run_pc' = "configured" /\ exit_code' = exit_code
       ELSE run_pc' = "exited" /\ exit_code' = 1
    /\ UNCHANGED <<logvars, crawlvars, gatevars, script, env, archive, ext_calls, prior, pipevars, overlapvars>>

\* crawl_all_feeds / crawl_all_journals: the known keys are loaded, the
\* sources are fetched, and records with unknown keys come back
CrawlerRun ==
    /\ run_pc = "configured"
    /\ script \in CrawlScripts
    /\ existing_urls' = load_existing_urls(log)
    /\ articles' \in {b \in Batches(now) : Keys(b) \cap load_existing_urls(log) = {}}
    /\ ext_calls' = ext_calls + 1
    /\ run_pc' = "crawled"
    /\ UNCHANGED <<now, ticks, memory_file, log, days_back, output, pc,
                   feeds_df, hours_back, feed_idx, cutoff_time, all_articles, fetch, results,
                   schedule,
                   gatevars, script, exit_code, env, archive, prior, pipevars, overlapvars>>

\* crawler.save_articles(articles); an exception leaves main
RunSaveArticles ==
    /\ run_pc = "crawled"
    /\ IF articles # <<>> /\ raises_on_read(log)
       THEN /\ log' = log
            /\ run_pc' = "exited"
            /\ exit_code' = 1
       ELSE /\ log' \in save_articles(log, articles, now, memory_file)
            /\ run_pc' = "saved"
            /\ exit_code' = exit_code
    /\ UNCHANGED <<now, ticks, memory_file, articles, days_back, output, pc,
                   crawlvars, gatevars, script, env, archive, ext_calls, prior, pipevars, overlapvars>>

\* crawler.generate_output_json(..., days_back); an exception leaves main
RunGenerateOutputJson ==
    /\ run_pc = "saved"
    /\ IF raises_on_read(log)
       THEN output' = output /\ exit_code' = 1
       ELSE output' = generate_output_json(log, now, days_back) /\ exit_code' = 0
    /\ run_pc' = "exited"
    /\ UNCHANGED <<now, ticks, memory_file, log, articles, days_back, pc,
                   crawlvars, gatevars, script, env, archive, ext_calls, prior, pipevars, overlapvars>>

\* filter_weekly_news up to "if not weekly_articles: return [], 0"
FilterLoad ==
    /\ run_pc = "configured"
    /\ script = "filter_news"
    /\ weekly_articles' = load_weekly_articles(log, now, days_back)
    /\ IF load_weekly_articles(log, now, days_back) = <<>>
       THEN run_pc' = "exited" /\ exit_code' = 0
       ELSE run_pc' = "loaded" /\ exit_code' = exit_code
    /\ UNCHANGED <<logvars, crawlvars, batch_num, attempt, response, all_filtered_articles,
                   exhausted, gate_pc, calls, sleeps, submitted, script, env, archive, ext_calls,
                   prior, pipevars, overlapvars>>

\* _archive_weekly_articles: the write succeeds, or its exception is logged
FilterArchive ==
    /\ run_pc = "loaded"
    /\ \E written \in BOOLEAN :
          archive' = IF written THEN [exists |-> TRUE, rows |-> weekly_articles] ELSE archive
    /\ gate_pc' = "start"
    /\ run_pc' = "filtering"
    /\ UNCHANGED <<logvars, crawlvars, weekly_articles, batch_num, attempt, response,
                   all_filtered_articles, exhausted, calls, sleeps, submitted,
                   script, exit_code, env, ext_calls, prior, pipevars, overlapvars>>

FilterSaveOutput ==
    /\ run_pc = "filtering"
    /\ gate_pc = "done"
    /\ output' = save_filtered_output(all_filtered_articles, now)
    /\ run_pc' = "output_saved"
    /\ UNCHANGED <<now, ticks, memory_file, log, articles, days_back, pc,
                   crawlvars, gatevars, script, exit_code, env, archive, ext_calls, prior, pipevars, overlapvars>>

FilterCleanup ==
    /\ run_pc = "output_saved"
    /\ log' \in cleanup_processed_articles(log, now, days_back)
    /\ run_pc' = "exited"
    /\ exit_code' = 0
    /\ UNCHANGED <<now, ticks, memory_file, articles, days_back, output, pc,
                   crawlvars, gatevars, script, env, archive, ext_calls, prior, pipevars, overlapvars>>

\* sender.send_weekly_digest: no subscriber to send to, at least one message
\* accepted, or none accepted
DigestSend ==
    /\ run_pc = "configured"
    /\ script = "send_digest"
    /\ \E outcome \in {"no_subscribers", "sent", "failed"} :
          /\ ext_calls' = IF outcome = "no_subscribers" THEN ext_calls ELSE ext_calls + 1
          /\ exit_code' = IF outcome = "failed" THEN 1 ELSE 0
    /\ run_pc' = "exited"
    /\ UNCHANGED <<logvars, crawlvars, gatevars, script, env, archive, prior, pipevars, overlapvars>>

NextRun ==
    \/ ConfigCheck
    \/ CrawlerRun
    \/ RunSaveArticles
    \/ RunGenerateOutputJson
    \/ FilterLoad
    \/ FilterArchive
    \/ GateStart
    \/ CallApi
    \/ FilterSaveOutput
    \/ FilterCleanup
    \/ DigestSend

SpecRun == InitRun /\ [][NextRun]_vars

(***************************************************************************)
(* Properties of a process.                                                *)
(***************************************************************************)
Exited == run_pc = "exited"

\* C13 (as claimed): a crawl or filter process that finds the memory file
\* present but unreadable ends with a non-zero exit status and leaves the
\* file as it found it.
C13_CorruptStoreAborts ==
    (Exited /\ prior.log = CorruptFile /\ script \in CrawlScripts \cup {"filter_news"}) =>
        /\ exit_code # 0
        /\ log = prior.log

\* C14: when the memory file is absent or of zero bytes, the crawl loads an
\* empty set of known keys, save_articles leaves exactly the new records, one
\* per key (the first seen), none pruned, and generate_output_json over the
\* absent or empty file gives a snapshot with count 0, no groups and an empty
\* list; the process exits with status 0.
C14_MissingStoreIsEmpty ==
    (script \in CrawlScripts /\ prior.log \in {NoFile, EmptyFile}) =>
        /\ run_pc \in {"crawled", "saved", "exited"} => existing_urls = {}
        /\ (run_pc \in {"saved", "exited"} /\ articles = <<>>) => log = prior.log
        /\ (run_pc \in {"saved", "exited"} /\ articles # <<>>) =>
              /\ read_csv(log) = "ok"
              /\ UniqueKeys(log.rows)
              /\ Range(log.rows) = Merged(NoFile, articles)
        /\ Exited => exit_code = 0
        /\ (Exited /\ articles = <<>>) =>
              /\ output.exists
              /\ output.update = now
              /\ output.articles_count = 0
              /\ output.sources = <<>>
              /\ output.all_articles = <<>>

\* a crawl that found a file of zero bytes returned two records with one key
\* and left one of them in the log
C14_Witness ==
    /\ Exited
    /\ script = "crawl_news"
    /\ prior.log = EmptyFile
    /\ Len(articles) = 2
    /\ articles[1].key = articles[2].key
    /\ log.rows = <<articles[1]>>
    /\ exit_code = 0

\* C15 (as claimed): every crawl process and every filter process that
\* completes has rewritten the output snapshot in that run.
C15_SnapshotEveryRun ==
    (Exited /\ exit_code = 0 /\ script \in CrawlScripts \cup {"filter_news"}) =>
        /\ output.exists
        /\ output.update = now

\* C16: after a completed filter run, no record that was submitted to the gate
\* and is older than now - 2 days is in the memory log, and every record of
\* the log that was not older than now - 2 days is still in it.
C16_PostFilterCleanup ==
    (Exited /\ exit_code = 0 /\ script = "filter_news") =>
        /\ \A r \in Range(weekly_articles) :
              r.scraped_at < now - timedelta_days(2) => r.key \notin Keys(log.rows)
        /\ \A r \in Range(prior.log.rows) :
              r.scraped_at >= now - timedelta_days(2) => r \in Range(log.rows)

\* a filter run submitted a record three days old and a record of today; the
\* first is gone from the log and the second is still there
C16_Witness ==
    /\ Exited
    /\ exit_code = 0
    /\ script = "filter_news"
    /\ Len(weekly_articles) = 2
    /\ weekly_articles[1].scraped_at = now
    /\ weekly_articles[2].scraped_at = now - timedelta_days(3)
    /\ log.rows = <<weekly_articles[1]>>

\* C17 (as claimed): whenever the capability has been called in a filter run,
\* the archive holds the pre-filter records of that run.
C17_ArchiveBeforeFilter ==
    calls # <<>> => archive = [exists |-> TRUE, rows |-> weekly_articles]

\* C18: when a required credential is absent, the process makes no external
\* call, leaves the memory log, the archive and the snapshot as they were, and
\* exits with a non-zero status.
C18_ConfigFailureFatal ==
    LET missing ==
            \/ script = "filter_news" /\ "ANTHROPIC_API_KEY" \notin env
            \/ script = "send_digest"
                 /\ ~({"EMAIL_USERNAME", "EMAIL_PASSWORD", "EMAIL_SUBSCRIBERS"} \subseteq env)
    IN  missing =>
            /\ run_pc \in {"start", "exited"}
            /\ Exited => exit_code = 1
            /\ ext_calls = 0
            /\ calls = <<>>
            /\ log = prior.log
            /\ output = prior.output
            /\ archive = prior.archive

\* the digest process has exited with status 1 for want of EMAIL_SUBSCRIBERS
C18_Witness ==
    /\ Exited
    /\ script = "send_digest"
    /\ env = {"EMAIL_USERNAME", "EMAIL_PASSWORD"}
    /\ exit_code = 1
    /\ ext_calls = 0

(***************************************************************************)
(* Properties of the retry loop and of the batch loop.                     *)
(***************************************************************************)
\* a step that invokes the capability
CallStep == calls' # calls

\* batch number b (from 0) is the one the retry loop is working on
InProgress(b) == gate_pc = "calling" /\ b = batch_num /\ Len(calls) = b + 1

\* C19: for each batch the capability is invoked at least once and at most
\* max_retries times; a reply that parses as a list of integers ends the
\* attempts for the batch; and retry_delay is waited once between two
\* consecutive attempts and not after the last one.
C19_BoundedRetry ==
    /\ [](/\ Len(sleeps) = Len(calls)
          /\ gate_pc = "done" /\ weekly_articles # <<>> => Len(calls) = total_batches(weekly_articles)
          /\ \A b \in 0..(Len(calls) - 1) :
                /\ 1 <= calls[b + 1]
                /\ calls[b + 1] <= max_retries
                /\ sleeps[b + 1] = IF InProgress(b) THEN calls[b + 1] ELSE calls[b + 1] - 1)
    /\ [][(CallStep /\ response'.kind = "int_list") =>
             (gate_pc' = "done" \/ batch_num' = batch_num + 1)]_vars

\* two batches: the first took all three attempts with two waits, the second
\* was answered at once
C19_Witness ==
    /\ gate_pc = "done"
    /\ calls = <<max_retries, 1>>
    /\ sleeps = <<max_retries - 1, 0>>

\* C20: an index i returned for batch b selects input record b * batch_size + i
\* (counted from 0) when 0 <= i < len(batch b) and is ignored otherwise; the
\* records a reply selects all lie in the batch it was returned for.
C20_IndexTranslation ==
    [][(CallStep /\ response'.kind = "int_list") =>
          LET b      == batch_num
              length == Min(batch_size, Len(weekly_articles) - b * batch_size)
              picked == SelectSeq(response'.value, LAMBDA i : 0 <= i /\ i < length)
              added  == [j \in 1..Len(picked) |-> weekly_articles[b * batch_size + picked[j] + 1]]
          IN  /\ all_filtered_articles' = all_filtered_articles \o added
              /\ Range(added) \subseteq BatchRecords(b)]_vars

\* the second batch of a list of more than two batches was answered with its
\* last index and one past it: the last record of that batch was kept
C20_Witness ==
    /\ gate_pc = "calling"
    /\ batch_num = 2
    /\ Len(calls) = 2
    /\ response = [kind |-> "int_list", value |-> <<batch_size - 1, batch_size>>]
    /\ all_filtered_articles # <<>>
    /\ all_filtered_articles[Len(all_filtered_articles)] = weekly_articles[2 * batch_size]

(***************************************************************************)
(* Further properties of the filter run and of the gate.                   *)
(***************************************************************************)
\* C25 (as claimed): every entry the cleanup of a filter run removes from the
\* memory log was among the records loaded and submitted to the gate in that
\* run.
C25_CleanupOnlyJudged ==
    (Exited /\ exit_code = 0 /\ script = "filter_news") =>
        \A r \in Range(prior.log.rows) :
            r \notin Range(log.rows) => r \in Range(weekly_articles)

\* C26 (as claimed): the list the gate returns holds each input record at most
\* once, holds only input records, and is no longer than the input.
C26_KeptIsSubset ==
    gate_pc = "done" =>
        /\ \A i, j \in 1..Len(all_filtered_articles) :
              all_filtered_articles[i] = all_filtered_articles[j] => i = j
        /\ Range(all_filtered_articles) \subseteq Range(weekly_articles)
        /\ Len(all_filtered_articles) <= Len(weekly_articles)

\* the snapshot was written by this process
Written == output.exists /\ output.update = now

RECURSIVE SumCounts(_, _)
SumCounts(groups, names) ==
    IF names = {} THEN 0
    ELSE LET n == CHOOSE n \in names : TRUE
         IN  groups[n].count + SumCounts(groups, names \ {n})

\* C27 (as claimed): in every snapshot written by generate_output_json or
\* _save_filtered_output, articles_count is the length of all_articles and the
\* sum of the group counts, each group's count is the length of its list, and
\* every record of all_articles is in exactly one group.
C27_SnapshotConsistent ==
    Written =>
        /\ output.articles_count = Len(output.all_articles)
        /\ output.articles_count = SumCounts(output.sources, DOMAIN output.sources)
        /\ \A g \in DOMAIN output.sources :
              output.sources[g].count = Len(output.sources[g].articles)
        /\ \A r \in Range(output.all_articles) :
              Cardinality({g \in DOMAIN output.sources :
                             r \in Range(output.sources[g].articles)}) = 1

(***************************************************************************)
(* Properties of the crawl loop: the known keys and the schedule.          *)
(***************************************************************************)
\* C21: the set of known keys is loaded once at the start of the crawl and no
\* source's result changes it: during the whole loop it equals the keys of the
\* memory log as the crawl found it, and what a source contributes is a
\* function of that source's fetch and of this snapshot alone, whatever the
\* sources before it returned.
C21_KnownKeysSnapshot ==
    /\ [](pc = "crawling" => existing_urls = load_existing_urls(log))
    /\ [][pc = "crawling" /\ Len(results') > Len(results) =>
            LET last == results'[Len(results')]
            IN  last.found =
                  IF fetch'.kind = "raise" THEN <<>>
                  ELSE crawl_single(fetch', last.source, load_existing_urls(log),
                                    cutoff_time, now)]_vars

\* two sources of one crawl both returned a record with the same key
C21_Witness ==
    /\ pc = "crawled"
    /\ Len(results) = 2
    /\ Keys(results[1].found) \cap Keys(results[2].found) # {}

\* C22: between the call of one source's crawl and the call of the next
\* source's crawl there is always a sleep, also when the earlier iteration
\* ended in the per-source exception handler.
C22_DelayBetweenSources ==
    \A i \in 1..Len(schedule) - 1 :
        ~(schedule[i] = "fetch" /\ schedule[i + 1] = "fetch")

(***************************************************************************)
(* The news pipeline over several runs, one run at a time: crawl_news.py,  *)
(* filter_news.py and send_digest.py on the same news log and the same     *)
(* news snapshot, against a feed whose content does not change.            *)
(***************************************************************************)
\* what the feed offers: an undated item and an item published at time 0
UpstreamItems ==
    { [link |-> "k1", title |-> "Paper", date |-> NoDate],
      [link |-> "k2", title |-> "Other", date |-> Naive(0)] }

\* what the relevance gate can return for a list that fits one batch: the
\* records a reply selects, or those of the call that used up its attempts
gate_results(arts) ==
    {selected(batch_of(arts, 0), v) : v \in IndexLists \cup {exhausted_result(batch_of(arts, 0))}}

\* EmailSender._load_json(news_file), and all_articles of what it returns
load_json(file) == IF file.exists THEN file.all_articles ELSE <<>>

InitPipe ==
    /\ now = 0
    /\ ticks = 0
    /\ memory_file = "news_log"
    /\ log \in {NoFile, KnownLog}
    /\ articles = <<>>
    /\ days_back = 7
    /\ output = NoOutput
    /\ pc = "idle"
    /\ CrawlIdle
    /\ GateIdle
    /\ RunIdle
    /\ upstream \in SeqsUpTo(UpstreamItems, MaxItems)
    /\ ingested = load_existing_urls(log)
    /\ approved = {}
    /\ digest = <<>>
    /\ last_crawl = NoCrawl
    /\ prev_crawl = NoCrawl
    /\ OverlapIdle

\* the time between one run of the pipeline and the next
PipeTick ==
    /\ pc = "idle"
    /\ ticks < MaxPipeTicks
    /\ now' = now + timedelta_days(PipeGapDays)
    /\ ticks' = ticks + 1
    /\ UNCHANGED <<memory_file, log, articles, days_back, output, pc, crawlvars, gatevars,
                   runvars, pipevars, overlapvars>>

\* crawl_news.main, crawl_all_feeds(hours_back=25) over the one feed
PipeCrawl ==
    /\ pc = "idle"
    /\ LET known == load_existing_urls(log)
           found == crawl_single([kind |-> "feedparser", items |-> upstream], "A", known,
                                 now - hours_back, now)
       IN  /\ articles' = found
           /\ ingested' = ingested \cup Keys(found)
           /\ prev_crawl' = last_crawl
           /\ last_crawl' = [t |-> now, known |-> known, returned |-> Keys(found)]
    /\ pc' = "crawled"
    /\ UNCHANGED <<now, ticks, memory_file, log, days_back, output, crawlvars, gatevars, runvars,
                   upstream, approved, digest, overlapvars>>

\* filter_news.main, filter_weekly_news(days_back=7): load the window, return
\* at once when it is empty, else archive it, run the gate, write the
\* snapshot and clean the log
PipeFilter ==
    /\ pc = "idle"
    /\ LET weekly == load_weekly_articles(log, now, days_back)
       IN  IF weekly = <<>>
           THEN UNCHANGED <<log, output, approved, archive>>
           ELSE /\ \E written \in BOOLEAN :
                      archive' = IF written THEN [exists |-> TRUE, rows |-> weekly] ELSE archive
                /\ \E kept \in gate_results(weekly) :
                      /\ output' = save_filtered_output(kept, now)
                      /\ approved' = approved \cup Keys(kept)
                /\ log' \in cleanup_processed_articles(log, now, days_back)
    /\ UNCHANGED <<now, ticks, memory_file, articles, days_back, pc, crawlvars, gatevars,
                   script, run_pc, exit_code, env, ext_calls, prior,
                   upstream, ingested, digest, last_crawl, prev_crawl, overlapvars>>

\* send_digest.main, send_weekly_digest reading the news snapshot
PipeDigest ==
    /\ pc = "idle"
    /\ digest' = load_json(output)
    /\ UNCHANGED <<logvars, crawlvars, gatevars, runvars,
                   upstream, ingested, approved, last_crawl, prev_crawl, overlapvars>>

NextPipe ==
    \/ PipeTick
    \/ PipeCrawl
    \/ SaveArticles
    \/ GenerateOutputJson
    \/ PipeFilter
    \/ PipeDigest

SpecPipe == InitPipe /\ [][NextPipe]_vars

\* C23: a key that was stored in the memory log is never again returned as a
\* new record by a later crawl, whatever prunes and cleanups ran in between.
\* (Every key a crawl returns is stored by the save that follows it.)
C23_NoReingestion ==
    [][pc = "idle" /\ pc' = "crawled" => Keys(articles') \cap ingested = {}]_vars

\* C24: every record send_weekly_digest reads from the news snapshot was kept
\* by the relevance gate.
C24_DigestOnlyApproved ==
    \A i \in 1..Len(digest) : digest[i].key \in approved

\* C28: when a crawl is followed, at the same time and with no entry removed
\* from the known keys in between, by a second crawl of the same feed content,
\* every key the first crawl returned is known to the second and the second
\* returns nothing.
C28_RecrawlFindsNothing ==
    (/\ pc = "crawled"
     /\ prev_crawl.t = last_crawl.t
     /\ prev_crawl.known \subseteq last_crawl.known)
    => /\ prev_crawl.returned \subseteq last_crawl.known
       /\ last_crawl.returned = {}

\* a crawl that returned a record next to a known key, then a second crawl at
\* the same time that returned nothing
C28_Witness ==
    /\ pc = "crawled"
    /\ prev_crawl.t = last_crawl.t
    /\ prev_crawl.known # {}
    /\ prev_crawl.returned # {}
    /\ prev_crawl.known \cup prev_crawl.returned \subseteq last_crawl.known
    /\ last_crawl.returned = {}

(***************************************************************************)
(* Termination of the relevance gate. Every call of the capability returns *)
(* or raises, so the loop always takes its next step.                      *)
(***************************************************************************)
SpecGateFair == SpecGate /\ WF_vars(NextGate)

RECURSIVE SumSeq(_)
SumSeq(counters) == IF counters = <<>> THEN 0 ELSE Head(counters) + SumSeq(Tail(counters))

\* C29: the gate over n records terminates; when it has, it has submitted
\* exactly ceil(n / batch_size) batches, each of at most batch_size records,
\* which put end to end are the n records in their order; and it never makes
\* more than ceil(n / batch_size) * max_retries calls of the capability.
C29_TerminatesBounded ==
    /\ <>(gate_pc = "done")
    /\ [](SumSeq(calls) <= total_batches(weekly_articles) * max_retries)
    /\ [](gate_pc = "done" =>
            /\ Len(submitted) = total_batches(weekly_articles)
            /\ \A b \in 1..Len(submitted) : Len(submitted[b]) <= batch_size
            /\ Concat(submitted) = weekly_articles)

\* the largest input was processed in three batches, the last of one record,
\* with every call of the capability failing
C29_Witness ==
    /\ gate_pc = "done"
    /\ Len(weekly_articles) = MaxArticles
    /\ Len(submitted) = 3
    /\ Len(submitted[3]) = 1
    /\ SumSeq(calls) = 3 * max_retries

(***************************************************************************)
(* A news crawl run and a filter run at once on the same news log:         *)
(* save_articles and _cleanup_processed_articles each read the whole file, *)
(* compute, and rewrite the whole file.                                    *)
(***************************************************************************)
InitOverlap ==
    /\ now = timedelta_days(10)
    /\ ticks = 0
    /\ memory_file = "news_log"
    /\ log \in RunLogs(now)
    /\ articles \in {b \in Batches(now) : b # <<>> /\ Keys(b) \cap load_existing_urls(log) = {}}
    /\ days_back = 7
    /\ output = NoOutput
    /\ pc = "idle"
    /\ CrawlIdle
    /\ GateIdle
    /\ RunIdle
    /\ PipeIdle
    /\ OverlapIdle

\* save_articles: existing_df = pd.read_csv(self.memory_file)
SaveRead ==
    /\ save_pc = "start"
    /\ save_file' = log
    /\ save_pc' = IF raises_on_read(log) THEN "raised" ELSE "read"
    /\ UNCHANGED <<logvars, crawlvars, gatevars, runvars, pipevars, cleanup_pc, cleanup_file>>

\* save_articles: concat, drop_duplicates, sort, prune, to_csv
SaveWrite ==
    /\ save_pc = "read"
    /\ log' \in save_articles(save_file, articles, now, memory_file)
    /\ save_pc' = "done"
    /\ UNCHANGED <<now, ticks, memory_file, articles, days_back, output, pc,
                   crawlvars, gatevars, runvars, pipevars, cleanup_pc, save_file, cleanup_file>>

\* _cleanup_processed_articles: df = pd.read_csv(self.memory_file); a failed
\* read is logged and ends the cleanup
CleanupRead ==
    /\ cleanup_pc = "start"
    /\ IF read_csv(log) = "ok"
       THEN cleanup_file' = log /\ cleanup_pc' = "read"
       ELSE cleanup_file' = cleanup_file /\ cleanup_pc' = "done"
    /\ UNCHANGED <<logvars, crawlvars, gatevars, runvars, pipevars, save_pc, save_file>>

\* _cleanup_processed_articles: split, combine, sort, to_csv
CleanupWrite ==
    /\ cleanup_pc = "read"
    /\ log' \in cleanup_processed_articles(cleanup_file, now, days_back)
    /\ cleanup_pc' = "done"
    /\ UNCHANGED <<now, ticks, memory_file, articles, days_back, output, pc,
                   crawlvars, gatevars, runvars, pipevars, save_pc, save_file, cleanup_file>>

NextOverlap ==
    \/ SaveRead
    \/ SaveWrite
    \/ CleanupRead
    \/ CleanupWrite

SpecOverlap == InitOverlap /\ [][NextOverlap]_vars

\* the entries the cleanup dropped from the file it read
CleanupRemoved ==
    Range(cleanup_file.rows) \ Range(cleanup_rows(cleanup_file.rows, now, days_back))

====
